---- MODULE Spec2Model ----
(***************************************************************************)
(* Model of the process supervisor of mpv-subtitleminer                    *)
(* (src/mpv/mpv-subtitleminer.lua): the script that spawns the helper      *)
(* server on one of a list of candidate ports, confirms it after a delay,  *)
(* classifies its exit and stops it again.                                 *)
(*                                                                         *)
(* The script runs in mpv's single-threaded event loop: every handler      *)
(* (key binding, timer callback, async-command callback, shutdown event)   *)
(* runs to completion, so each handler is one action.                      *)
(***************************************************************************)
EXTENDS Integers, Sequences, FiniteSets, TLC

\* ---------------------------------------------------------------- bounds

\* Length of the configured candidate port list (opts.ports).
NumPorts == 2

\* Number of handles: helper processes not yet reaped plus confirmation timers
\* still armed at any one time. A handle is used again once both are gone.
MaxProcs == 2

\* Longest ports string, in characters, and longest ports table the script is
\* loaded with (a few longer strings are added by hand).
MaxOpts == 3

\* ------------------------------------------------------------- constants

\* First port of the default list, opts.ports = { 61777, 61778, ... }.
BasePort == 61777

\* The list the script is shipped with, opts.ports = { 61777, 61778, ... }, cut
\* to NumPorts consecutive ports.
DefaultPorts == [i \in 1..NumPorts |-> BasePort + i - 1]

\* The largest port number the conversion of a ports string lets through.
MaxPort == 65535

\* Lua nil for server_process / startup_timer / current_port.
NoProc == 0
NoTimer == 0
NoPort == 0

\* The substrings of stderr the exit callback searches for.
PortMarkers == {"Address already in use", "os error 98", "os error 10048"}
MismatchMarkers == {"MPV_IPC_PID_MISMATCH"}
ConnectMarkers == {"Failed to connect to mpv socket", "Failed to connect to mpv pipe"}
Markers == PortMarkers \cup MismatchMarkers \cup ConnectMarkers

\* An exit result as the callback receives it: the success flag, whether a
\* result table is present, and the set of searched substrings its stderr
\* contains. The host calls back with (true, result) or with (false, nil, error).
\* The stderr texts considered: none of the substrings, each of them alone,
\* and one text for each pair of kinds of signal.
StderrTexts ==
  {{}} \cup {{m} : m \in Markers}
       \cup {{"Address already in use", "MPV_IPC_PID_MISMATCH"},
             {"os error 98", "Failed to connect to mpv socket"},
             {"MPV_IPC_PID_MISMATCH", "Failed to connect to mpv pipe"}}

Results ==
  [success : {TRUE}, present : {TRUE}, stderr : StderrTexts]
    \cup [success : {FALSE}, present : {FALSE}, stderr : {{}}]

\* ----------------------------------------------------------------- state

VARIABLES
  server_process,  \* handle of the supervised async command, or NoProc
  server_running,  \* the confirmed flag
  current_port,    \* port of the current attempt, or NoPort
  startup_timer,   \* the timer object the script holds, or NoTimer
  timers,          \* timers armed in the host and not yet fired or killed
  procs,           \* every helper process spawned so far, by handle
  shut,            \* the shutdown event has been handled
  scen,            \* observer of the probe scenario (events only)
  last,            \* what the last handler was and did
  opts             \* the script's options table and how far its loading got

vars == <<server_process, server_running, current_port, startup_timer, timers,
          procs, shut, scen, last, opts>>

\* opts.ports, the candidate list try_start_on_port reads.
ports == opts.ports

\* The script's own variables and the host objects, as one record, so that a
\* handler that calls another function composes.
Cur == [server_process |-> server_process, server_running |-> server_running,
        current_port |-> current_port, startup_timer |-> startup_timer,
        timers |-> timers, procs |-> procs, msg |-> "", spawned |-> 0,
        overflow |-> FALSE]

Install(s) ==
  /\ server_process' = s.server_process
  /\ server_running' = s.server_running
  /\ current_port' = s.current_port
  /\ startup_timer' = s.startup_timer
  /\ timers' = s.timers
  /\ procs' = s.procs
  /\ opts' = opts

Handles == 1..MaxProcs

\* A helper process: the port index it was spawned on, whether its callback is
\* still to run, whether its termination was requested, and whether it was
\* the held process when a confirmation timeout set the confirmed flag.
NewProc(port_index) ==
  [idx |-> port_index, alive |-> TRUE, aborted |-> FALSE, everConfirmed |-> FALSE]

NoProcRec == [idx |-> 0, alive |-> FALSE, aborted |-> FALSE, everConfirmed |-> FALSE]

\* Handles with neither a process nor an armed timer.
FreeHandles(s) == {h \in Handles : ~s.procs[h].alive /\ h \notin s.timers}

FreshHandle(s) == CHOOSE h \in FreeHandles(s) : \A g \in FreeHandles(s) : h <= g

\* ------------------------------------------------------------- opts.ports

\* opts as a record: type and ports are type(opts.ports) and the list when it
\* is a table; text is the ports string as given, character by character;
\* pc is how far the script's top level got: "raw" after read_options,
\* "ready" past the checks of the list, "ended" by the return after them.

\* tonumber(port_str) for a string of the model, <<>> for nil: a decimal
\* numeral gives <<its value>>, and no other string of the model is a number.
tonumber(port_str) ==
  LET digits == <<"0", "1", "2", "3", "4", "5", "6", "7", "8", "9">>
      val(c) == (CHOOSE i \in 1..Len(digits) : digits[i] = c) - 1
      numeral == /\ port_str # <<>>
                 /\ \A i \in 1..Len(port_str) :
                      \E j \in 1..Len(digits) : digits[j] = port_str[i]
      dec[n \in 0..Len(port_str)] ==
        IF n = 0 THEN 0 ELSE 10 * dec[n - 1] + val(port_str[n])
  IN IF numeral THEN <<dec[Len(port_str)]>> ELSE <<>>

\* The matches of opts.ports:gmatch("[^,]+"), in order: the maximal runs of
\* characters other than the comma.
RECURSIVE gmatch(_)
gmatch(str) ==
  IF str = <<>> THEN <<>>
  ELSE IF Head(str) = "," THEN gmatch(Tail(str))
  ELSE LET n == CHOOSE k \in 1..Len(str) :
                  /\ \A i \in 1..k : str[i] # ","
                  /\ k = Len(str) \/ str[k + 1] = ","
       IN <<SubSeq(str, 1, n)>> \o gmatch(SubSeq(str, n + 1, Len(str)))

\* The loop that fills ports_table: a match is inserted as a number when
\* tonumber gives one that is above 0 and at most 65535, and warned about
\* and left out otherwise.
ports_table(str) ==
  LET kept == SelectSeq(gmatch(str),
                        LAMBDA port_str :
                          LET port == tonumber(port_str) IN
                            port # <<>> /\ port[1] > 0 /\ port[1] <= MaxPort)
  IN [i \in 1..Len(kept) |-> tonumber(kept[i])[1]]

\* The script's top level after read_options: a ports string is converted, a
\* table is left as it is, and the script returns if the list has no entry.
load_script(o) ==
  LET list == IF o.type = "string" THEN ports_table(o.text) ELSE o.ports
  IN [o EXCEPT !.type = "table", !.ports = list,
               !.pc = IF Len(list) = 0 THEN "ended" ELSE "ready"]

\* ------------------------------------------------------- try_start_on_port

\* A callback that tries the same index again.
NextIndex_same(port_index) == port_index

\* The index try_start_on_port passes on after a port conflict.
NextIndex(port_index) == port_index + 1

\* The test of try_start_on_port for the end of the list, and one that gives
\* up one candidate early.
PastEnd_early(port_index) == port_index >= Len(ports)

PastEnd(port_index) == port_index > Len(ports)

\* try_start_on_port(port_index); ok: mp.command_native_async returned a handle.
\* overflow marks a spawn the model has no handle left for.
\* The timer armed for a spawn carries the handle of that spawn as its name.
try_start_on_port(s, port_index, ok) ==
  IF PastEnd(port_index)
  THEN [s EXCEPT !.msg = "Failed to start server on any port"]
  ELSE IF ok /\ FreeHandles(s) = {}
  THEN [s EXCEPT !.overflow = TRUE]
  ELSE IF ok
  THEN LET h == FreshHandle(s) IN
       [s EXCEPT !.current_port = ports[port_index],
                 !.procs[h] = NewProc(port_index),
                 !.server_process = h,
                 !.startup_timer = h,
                 !.timers = @ \cup {h},
                 !.spawned = port_index]
  ELSE [s EXCEPT !.current_port = ports[port_index],
                 !.server_process = NoProc,
                 !.msg = "Failed to start server"]

\* ------------------------------------------------------ exit classification

HasAny(text, markers) == text \cap markers # {}

\* stderr_text = result and result.stderr or ""
StderrText(r) == IF r.present THEN r.stderr ELSE {}

\* A callback that tests for the connect failure before the mismatch.
Classify_connect_first(text) ==
  IF HasAny(text, ConnectMarkers) THEN "Unreachable"
  ELSE IF HasAny(text, MismatchMarkers) THEN "IdentityMismatch"
  ELSE IF HasAny(text, PortMarkers) THEN "PortInUse"
  ELSE "UnexpectedExit"

\* A callback that tests for the port conflict first.
Classify_port_first(text) ==
  IF HasAny(text, PortMarkers) THEN "PortInUse"
  ELSE IF HasAny(text, MismatchMarkers) THEN "IdentityMismatch"
  ELSE IF HasAny(text, ConnectMarkers) THEN "Unreachable"
  ELSE "UnexpectedExit"

\* The order of the callback's tests.
Classify(text) ==
  IF HasAny(text, MismatchMarkers) THEN "IdentityMismatch"
  ELSE IF HasAny(text, ConnectMarkers) THEN "Unreachable"
  ELSE IF HasAny(text, PortMarkers) THEN "PortInUse"
  ELSE "UnexpectedExit"

\* ------------------------------------------------------------ the handlers

\* The callback of the async subprocess command of handle h, run with result r.
exit_callback(s, h, r, ok) ==
  LET was_confirmed_running == s.server_running
      s1 == [s EXCEPT !.server_running = FALSE,
                      !.server_process = NoProc,
                      !.timers = @ \ {s.startup_timer},
                      !.startup_timer = NoTimer,
                      !.procs[h] = NoProcRec]
      cls == Classify(StderrText(r))
  IN CASE cls = "IdentityMismatch" ->
            [s1 EXCEPT !.msg = "IPC socket is in use by another mpv instance",
                       !.current_port = NoPort]
       [] cls = "Unreachable" ->
            [s1 EXCEPT !.msg = "can't connect to mpv IPC socket",
                       !.current_port = NoPort]
       [] cls = "PortInUse" ->
            try_start_on_port(s1, NextIndex(s.procs[h].idx), ok)
       [] OTHER ->
            [s1 EXCEPT !.msg = IF was_confirmed_running
                                THEN (IF ~r.success THEN "server stopped (error)"
                                      ELSE "server stopped")
                                ELSE "",
                       !.current_port = NoPort]

\* A timeout that sets the flag without looking for a handle.
startup_timeout_unchecked(s, t) ==
  [s EXCEPT !.timers = @ \ {t}, !.startup_timer = NoTimer,
            !.server_running = TRUE, !.msg = "server started on port"]

\* The confirmation timeout armed at the spawn of handle t fires.
startup_timeout(s, t) ==
  LET s1 == [s EXCEPT !.timers = @ \ {t}, !.startup_timer = NoTimer]
  IN IF s1.server_process # NoProc
     THEN [s1 EXCEPT !.server_running = TRUE,
                     !.procs[s1.server_process].everConfirmed = TRUE,
                     !.msg = "server started on port"]
     ELSE s1

\* A start_server that tests the confirmed flag alone.
start_server_flag_only(s, ok) ==
  IF s.server_running
  THEN [s EXCEPT !.msg = "Server already running on port"]
  ELSE try_start_on_port([s EXCEPT !.msg = "Starting server..."], 1, ok)

start_server(s, ok) ==
  IF s.server_running \/ s.server_process # NoProc
  THEN [s EXCEPT !.msg = "Server already running on port"]
  ELSE try_start_on_port([s EXCEPT !.msg = "Starting server..."], 1, ok)

\* A stop_server that leaves the confirmed flag as it is.
stop_server_keeps_flag(s) ==
  IF s.server_process = NoProc
  THEN [s EXCEPT !.msg = "Server not running"]
  ELSE [s EXCEPT !.msg = "Stopping server...",
                 !.procs[s.server_process].aborted = TRUE,
                 !.server_process = NoProc]

\* mp.abort_async_command(proc): termination of proc is requested; its callback
\* runs later from the event loop.
stop_server(s) ==
  IF s.server_process = NoProc
  THEN [s EXCEPT !.msg = "Server not running"]
  ELSE [s EXCEPT !.msg = "Stopping server...",
                 !.procs[s.server_process].aborted = TRUE,
                 !.server_process = NoProc,
                 !.server_running = FALSE]

\* A toggle_server that tests the confirmed flag alone.
toggle_server_flag_only(s, ok) ==
  IF s.server_running
  THEN stop_server(s)
  ELSE start_server(s, ok)

toggle_server(s, ok) ==
  IF s.server_running \/ s.server_process # NoProc
  THEN stop_server(s)
  ELSE start_server(s, ok)

\* The handler of the shutdown event.
shutdown_handler(s) ==
  LET s1 == [s EXCEPT !.timers = @ \ {s.startup_timer}, !.startup_timer = NoTimer]
  IN IF s1.server_running /\ s1.server_process # NoProc
     THEN [s1 EXCEPT !.procs[s1.server_process].aborted = TRUE,
                     !.msg = "Shutting down server on mpv exit..."]
     ELSE s1

\* --------------------------------------------------------------- observers

\* The kinds of signal a stderr text carries, read off the text itself.
Signals(text) ==
  {k \in {"port", "mismatch", "connect"} :
     \/ k = "port" /\ text \cap PortMarkers # {}
     \/ k = "mismatch" /\ text \cap MismatchMarkers # {}
     \/ k = "connect" /\ text \cap ConnectMarkers # {}}

\* What the last handler was (op), the process or timer it ran for (pid), the
\* signals in the stderr of the exit it handled (marks), the last notice it
\* showed (msg), the port index it spawned on (spawned, 0 for none), the
\* confirmed flag it found (pre_running), and whether the process pid had been
\* confirmed (was_confirmed). For a handler that is not the callback of a
\* process or of a timer, pid is the handle it found in server_process.
Did(op, pid, text, s) ==
  [op |-> op, pid |-> pid, marks |-> Signals(text), msg |-> s.msg,
   spawned |-> s.spawned, pre_running |-> server_running,
   was_confirmed |-> IF pid \in Handles THEN procs[pid].everConfirmed ELSE FALSE]

Running == {h \in Handles : procs[h].alive}

\* Nothing is left over of an earlier run: no handle, no process, no timer.
TrulyIdle ==
  /\ server_process = NoProc
  /\ ~server_running
  /\ timers = {}
  /\ Running = {}

NoScen == [phase |-> "none", k |-> 0, log |-> <<>>]

\* The probe scenario, followed on the events alone: a start when nothing is
\* left over, then k exits of the latest process whose stderr holds an
\* address-in-use signal and nothing else, every spawn yielding a handle, then
\* either the confirmation timeout (confirmed) or the exit of the last
\* candidate (exhausted). Any other event leaves the scenario. log is the
\* sequence of port indexes the handlers s of the scenario spawned on.
Logged(s) == IF s.spawned > 0 THEN Append(scen.log, s.spawned) ELSE scen.log

ScenStart(s, ok) ==
  IF TrulyIdle /\ ok
  THEN [phase |-> "probing", k |-> 0, log |-> IF s.spawned > 0 THEN <<s.spawned>> ELSE <<>>]
  ELSE NoScen

PortUnavailable(r) ==
  /\ r.present
  /\ r.stderr # {}
  /\ r.stderr \subseteq PortMarkers

ScenExit(s, h, r, ok) ==
  IF /\ scen.phase = "probing"
     /\ h = server_process
     /\ PortUnavailable(r)
     /\ (ok \/ scen.k + 1 >= NumPorts)
  THEN [phase |-> IF scen.k + 1 >= NumPorts THEN "exhausted" ELSE "probing",
        k |-> scen.k + 1, log |-> Logged(s)]
  ELSE NoScen

ScenTimer(s) ==
  IF scen.phase = "probing"
  THEN [phase |-> "confirmed", k |-> scen.k, log |-> Logged(s)]
  ELSE NoScen

\* ----------------------------------------------------------------- actions

ScriptInit ==
  /\ server_process = NoProc
  /\ server_running = FALSE
  /\ current_port = NoPort
  /\ startup_timer = NoTimer
  /\ timers = {}
  /\ procs = [h \in Handles |-> NoProcRec]
  /\ shut = FALSE
  /\ scen = NoScen
  /\ last = [op |-> "init", pid |-> 0, marks |-> {}, msg |-> "", spawned |-> 0,
             pre_running |-> FALSE, was_confirmed |-> FALSE]

\* The script has loaded with the list it is shipped with.
Init ==
  /\ ScriptInit
  /\ opts = [type |-> "table", text |-> <<>>, ports |-> DefaultPorts, pc |-> "ready"]

\* The handler stayed within the model's handles.
Fits(s) == ~s.overflow

\* start_server() is called: by the auto-start timeout armed at load when
\* opts.auto_start is set, or as the contract's start().
Start(ok) ==
  /\ ~shut
  /\ LET s == start_server(Cur, ok) IN
       /\ Fits(s)
       /\ Install(s)
       /\ last' = Did("start", server_process, {}, s)
       /\ scen' = ScenStart(s, ok)
  /\ UNCHANGED shut

\* stop_server() is called.
Stop ==
  /\ ~shut
  /\ LET s == stop_server(Cur) IN
       /\ Install(s)
       /\ last' = Did("stop", server_process, {}, s)
  /\ scen' = NoScen
  /\ UNCHANGED shut

\* The key binding or script message toggle-subtitleminer.
Toggle(ok) ==
  /\ ~shut
  /\ LET s == toggle_server(Cur, ok) IN
       /\ Fits(s)
       /\ Install(s)
       /\ last' = Did("toggle", server_process, {}, s)
       /\ scen' = IF server_running \/ server_process # NoProc
                  THEN NoScen ELSE ScenStart(s, ok)
  /\ UNCHANGED shut

\* Process h has ended with result r and the host runs its callback. ok is
\* read by a spawn only, which only a port conflict leads to.
Exit(h, r, ok) ==
  /\ ~shut
  /\ h \in Running
  /\ ok \/ Classify(StderrText(r)) = "PortInUse"
  /\ LET s == exit_callback(Cur, h, r, ok) IN
       /\ Fits(s)
       /\ Install(s)
       /\ last' = Did("exit", h, StderrText(r), s)
       /\ scen' = ScenExit(s, h, r, ok)
  /\ UNCHANGED shut

\* The confirmation timeout t fires.
Timer(t) ==
  /\ ~shut
  /\ t \in timers
  /\ LET s == startup_timeout(Cur, t) IN
       /\ Install(s)
       /\ last' = Did("timer", t, {}, s)
       /\ scen' = ScenTimer(s)
  /\ UNCHANGED shut

\* The host shuts down; the script's event loop ends after the handler.
Shutdown ==
  /\ ~shut
  /\ shut' = TRUE
  /\ LET s == shutdown_handler(Cur) IN
       /\ Install(s)
       /\ last' = Did("shutdown", server_process, {}, s)
  /\ scen' = NoScen

\* ======================================================================
\* The web client (src/unnamed/part_002, the page's App.vue): the item
\* store, the pending markers and the request functions that wait for media.
\* The page runs in the browser's event loop: a message handler, a click
\* handler, one tick of a polling interval and a deadline timer each run to
\* completion, so each is one action. What a request function does up to the
\* point where its promise waits is one action as well.
\* ======================================================================

\* ---------------------------------------------------------------- bounds

\* Calls of requestMediaFromServer / requestAudioRange that start a wait, in
\* one run.
MaxCalls == 3

\* ------------------------------------------------------------- constants

\* The item store keeps this many items (messages.value.length > 200).
MaxMessages == 200

\* ws ports the page connects to, by their place in settings.connection.ports.
ClientPorts == {1, 2}

\* The subtitles a player sends in a run of the request model, as the port it
\* is connected on and the id: each is sent once.
Subs == {<<1, 1>>}

\* The id a request that ends at a later subtitle gives as its endId.
LaterId == 2

\* undefined, for msg.thumbnail / msg.audio and for a promise's value.
NoData == 0

\* The base64 data a response carries.
Media == 1

\* A promise that has not been resolved.
Pending == -1

\* null, for pendingAudioRange.
NoRange == [startId |-> 0, endId |-> 0, port |-> 0, data |-> NoData]

\* endId left out of requestMediaFromServer(msg, type).
NoEnd == 0

VARIABLES
  messages,          \* the item store, oldest first
  loadingMedia,      \* the keys that have a pending marker
  pendingAudioRange, \* the last audio_range response, until a poll takes it
  selectedMessages,  \* the uids selected
  connectedPorts,    \* ws.connectedPorts: the ports whose socket is open
  waiters,           \* the waits started, in the order of their calls
  wire,              \* requests transmitted and not answered
  exporting,         \* the run of sendSelectionToAnki under way, or the last
  clast              \* what the last client handler did

cvars == <<messages, loadingMedia, pendingAudioRange, selectedMessages,
           connectedPorts, waiters, wire, exporting, clast>>

Waits == 1..MaxCalls

\* A place in waiters that no call has taken, and one that has nothing left
\* to do. waiting: the promise is pending, and so the interval is ticking.
\* landed: the data of the response that came in for the key while the
\* promise was pending.
FreeWait == [st |-> "free", kind |-> "", port |-> 0, id |-> 0, endId |-> 0,
             oid |-> 0, issuer |-> FALSE, waiting |-> FALSE,
             landed |-> NoData]
GoneWait == [FreeWait EXCEPT !.st = "gone"]

\* The client's state as one record; out is what the handler running let out:
\* requests transmitted, the error toast shown, the value a promise got, the
\* wait it started or resolved, and whether it went over the model's waits.
NoOut == [tx |-> 0, toast |-> "", res |-> Pending, w |-> 0, over |-> FALSE]

CCur ==
  [messages |-> messages, loadingMedia |-> loadingMedia,
   pendingAudioRange |-> pendingAudioRange,
   selectedMessages |-> selectedMessages, connectedPorts |-> connectedPorts,
   waiters |-> waiters, wire |-> wire, exporting |-> exporting, out |-> NoOut]

CInstall(s) ==
  /\ messages' = s.messages
  /\ loadingMedia' = s.loadingMedia
  /\ pendingAudioRange' = s.pendingAudioRange
  /\ selectedMessages' = s.selectedMessages
  /\ connectedPorts' = s.connectedPorts
  /\ waiters' = s.waiters
  /\ wire' = s.wire
  /\ exporting' = s.exporting

\* ---------------------------------------------------------- keys and items

\* `${port}-${id}`, the uid parseSubtitleMessage gives an item.
Uid(port, id) == <<port, id>>

\* The marker keys: `thumb-${uid}`, `audio-${uid}`, with `-${endId}` added
\* when endId is given, and `audio_range-${port}-${startId}-${endId}`.
Key(kind, port, id, endId) ==
  [kind |-> kind, port |-> port, id |-> id, endId |-> endId]

\* The key onMessage removes for a thumbnail or audio response: it never has
\* an endId part.
ResponseKey(kind, port, id) == Key(kind, port, id, NoEnd)

WaitKey(w) == Key(w.kind, w.port, w.id, w.endId)

\* The object identity of the next item pushed.
NextOid(s) ==
  IF s.messages = <<>> THEN 1 ELSE s.messages[Len(s.messages)].oid + 1

\* The positions in the store of the object oid (none once it is evicted).
Places(s, oid) == {i \in 1..Len(s.messages) : s.messages[i].oid = oid}

\* msg.thumbnail or msg.audio of the object a wait closed over. The request
\* model never evicts, so the object is in the store.
MediaOf(s, oid, kind) ==
  IF Places(s, oid) = {} THEN NoData
  ELSE LET m == s.messages[CHOOSE i \in Places(s, oid) : TRUE] IN
       IF kind = "thumb" THEN m.thumbnail ELSE m.audio

\* The alternative to the search below that goes by the id alone.
FindIndex_any_port(s, port, id) ==
  LET hits == {i \in 1..Len(s.messages) : s.messages[i].id = id} IN
  IF hits = {} THEN 0 ELSE CHOOSE i \in hits : \A j \in hits : i <= j

\* messages.value.find((m) => m.id === id && m.sourcePort === port): the
\* first such position, 0 for undefined.
FindIndex(s, port, id) ==
  LET hits == {i \in 1..Len(s.messages) :
                 s.messages[i].id = id /\ s.messages[i].port = port} IN
  IF hits = {} THEN 0 ELSE CHOOSE i \in hits : \A j \in hits : i <= j

\* ------------------------------------------------------------- onMessage

\* The alternative to the cap below that never evicts.
PushCapped_keep_all(msgs, m) == Append(msgs, m)

\* messages.value.push(msg); if (messages.value.length > 200) shift().
PushCapped(msgs, m) ==
  LET pushed == Append(msgs, m) IN
  IF Len(pushed) > MaxMessages THEN Tail(pushed) ELSE pushed

\* onMessage for { type: 'subtitle', id, ... } received on port.
onSubtitle(s, port, id) ==
  [s EXCEPT !.messages =
     PushCapped(@, [oid |-> NextOid(s), id |-> id, port |-> port,
                    thumbnail |-> NoData, audio |-> NoData])]

\* A wait that is pending learns that the response for its key has landed.
Landed(ws, key, data) ==
  [w \in Waits |->
     IF ws[w].waiting /\ WaitKey(ws[w]) = key
     THEN [ws[w] EXCEPT !.landed = data] ELSE ws[w]]

\* onMessage for { type: 'thumbnail' | 'audio', id, data } received on port.
onMedia(s, kind, port, id, data) ==
  LET i == FindIndex(s, port, id)
      stored ==
        IF i = 0 THEN s.messages
        ELSE IF kind = "thumb"
             THEN [s.messages EXCEPT ![i].thumbnail = data]
             ELSE [s.messages EXCEPT ![i].audio = data]
  IN [s EXCEPT !.messages = stored,
               !.loadingMedia = @ \ {ResponseKey(kind, port, id)}]

\* onMessage for { type: 'audio_range', startId, endId, data } received on port.
onAudioRange(s, port, startId, endId, data) ==
  [s EXCEPT !.pendingAudioRange =
              [startId |-> startId, endId |-> endId, port |-> port, data |-> data],
            !.loadingMedia = @ \ {Key("audio_range", port, startId, endId)}]

\* ----------------------------------------------------------- ws (composable)

\* ws.status.value === 'connected': at least one port is connected.
WsConnected(s) == s.connectedPorts # {}

\* ws.send(payload, port): transmits if that port is connected and says so.
WsSend(s, port) == port \in s.connectedPorts

\* The alternative to sendToPort below that goes by the status of the page
\* as a whole, not of the port.
sendToPort_any(s, port) == WsConnected(s)

\* sendToPort(payload, port): false without a port, ws.send otherwise.
sendToPort(s, port) == IF port = 0 THEN FALSE ELSE WsSend(s, port)

\* The request for key goes out, for the wait by (0: for a button).
Transmit(s, key, by) ==
  [s EXCEPT !.wire = @ \cup {[key |-> key, by |-> by]},
            !.out.tx = @ + 1]

\* ------------------------------------------------------ request functions

FreeWaits(s) == {w \in Waits : s.waiters[w].st = "free"}

\* The place the next wait takes: calls take the places in order. 0: the
\* model has no place left.
NextWait(s) ==
  IF FreeWaits(s) = {} THEN 0
  ELSE CHOOSE w \in FreeWaits(s) : \A v \in FreeWaits(s) : w <= v

\* The promise of a call is returned pending, with its polling interval and
\* its deadline timer armed.
StartWait(s, key, oid, issuer) ==
  LET w == NextWait(s) IN
  IF w = 0 THEN [s EXCEPT !.out.over = TRUE] ELSE
  [s EXCEPT !.waiters[w] =
              [st |-> "armed", kind |-> key.kind, port |-> key.port,
               id |-> key.id, endId |-> key.endId, oid |-> oid,
               issuer |-> issuer, waiting |-> TRUE, landed |-> NoData],
            !.out.w = w]

\* The promise of a call is resolved before the call returns.
ResolveNow(s, v) == [s EXCEPT !.out.res = v]

\* The alternative to the request below that leaves the marker of a request
\* that could not be sent.
Request_keep_marker(s, key, oid) ==
  IF ~WsConnected(s) THEN ResolveNow(s, NoData)
  ELSE IF key \in s.loadingMedia THEN StartWait(s, key, oid, FALSE)
  ELSE LET marked == [s EXCEPT !.loadingMedia = @ \cup {key}] IN
       IF ~sendToPort(s, key.port)
       THEN ResolveNow(marked, NoData)
       ELSE StartWait(Transmit(marked, key, NextWait(s)), key, oid, TRUE)

\* What requestMediaFromServer and requestAudioRange do before they wait:
\* none at once without a connection; a wait that joins if the key has a
\* marker; else the marker is set and the request sent, and the wait is the
\* issuer's, or, if it could not be sent, the marker removed and none at once.
Request(s, key, oid) ==
  IF ~WsConnected(s) THEN ResolveNow(s, NoData)
  ELSE IF key \in s.loadingMedia THEN StartWait(s, key, oid, FALSE)
  ELSE LET marked == [s EXCEPT !.loadingMedia = @ \cup {key}] IN
       IF ~sendToPort(s, key.port)
       THEN ResolveNow(s, NoData)
       ELSE StartWait(Transmit(marked, key, NextWait(s)), key, oid, TRUE)

\* `${type === 'thumbnail' ? 'thumb' : 'audio'}-${msg.uid}${endId ? ... : ''}`
MediaKey(m, kind, endId) == Key(kind, m.port, m.id, endId)

\* requestMediaFromServer(msg, type, endId) for the item at place i.
requestMediaFromServer(s, i, kind, endId) ==
  Request(s, MediaKey(s.messages[i], kind, endId), s.messages[i].oid)

\* requestAudioRange(startId, endId, port).
requestAudioRange(s, startId, endId, port) ==
  Request(s, Key("audio_range", port, startId, endId), 0)

\* What a wait's poll and deadline read: msg.thumbnail / msg.audio, or the
\* data of pendingAudioRange if it is for this wait's range and port.
Seen(s, w) ==
  IF w.kind = "audio_range"
  THEN IF /\ s.pendingAudioRange # NoRange
          /\ s.pendingAudioRange.startId = w.id
          /\ s.pendingAudioRange.endId = w.endId
          /\ s.pendingAudioRange.port = w.port
       THEN s.pendingAudioRange.data ELSE NoData
  ELSE MediaOf(s, w.oid, w.kind)

\* Whether this tick of a wait's interval resolves it: with the data if it
\* is there; a joiner also, with none, once the marker is gone.
PollResolves(s, w) ==
  \/ Seen(s, w) # NoData
  \/ ~w.issuer /\ WaitKey(w) \notin s.loadingMedia

\* A wait whose promise the handler running resolves with v. The issuer's
\* deadline timer still has the marker to remove; a joiner's has nothing left
\* to do once the promise is resolved and the interval cleared.
Resolved(s, w, v) ==
  [s EXCEPT !.waiters[w] =
              IF @.issuer THEN [@ EXCEPT !.waiting = FALSE, !.landed = NoData]
              ELSE GoneWait,
            !.out.res = v, !.out.w = w]

\* One tick of the interval of wait w. A range poll that finds its result
\* takes it out of pendingAudioRange.
poll(s, w) ==
  LET me == s.waiters[w] IN
  IF ~PollResolves(s, me) THEN s
  ELSE [Resolved(s, w, Seen(s, me)) EXCEPT
          !.pendingAudioRange =
             IF me.kind = "audio_range" /\ Seen(s, me) # NoData
             THEN NoRange ELSE @]

\* What the deadline resolves a promise with, if it is still pending:
\* msg.thumbnail / msg.audio for a single item, undefined for a range.
AtDeadline(s, w) == IF w.kind = "audio_range" THEN NoData ELSE Seen(s, w)

\* The alternative to the deadline below that resolves nothing.
deadline_silent(s, w) ==
  LET me == s.waiters[w] IN
  [s EXCEPT !.waiters[w] = [GoneWait EXCEPT !.waiting = me.waiting],
            !.loadingMedia = IF me.issuer THEN @ \ {WaitKey(me)} ELSE @,
            !.out.w = w]

\* The deadline timer of wait w fires: the interval is cleared, the issuer's
\* removes the marker of its key, and the promise is resolved unless it was.
deadline(s, w) ==
  LET me == s.waiters[w] IN
  [s EXCEPT !.waiters[w] = GoneWait,
            !.loadingMedia = IF me.issuer THEN @ \ {WaitKey(me)} ELSE @,
            !.out.res = IF me.waiting THEN AtDeadline(s, me) ELSE Pending,
            !.out.w = w]

\* -------------------------------------------------------------- selection

\* messages.value.findIndex((m) => m.uid === uid): the first such place, 0
\* for -1.
FindUid(s, uid) ==
  LET hits == {i \in 1..Len(s.messages) :
                 Uid(s.messages[i].port, s.messages[i].id) = uid} IN
  IF hits = {} THEN 0 ELSE CHOOSE i \in hits : \A j \in hits : i <= j

\* selectedIndices: the places of the selected uids that are in the store.
SelectedIndices(s) == {FindUid(s, u) : u \in s.selectedMessages} \ {0}

Min(S) == CHOOSE i \in S : \A j \in S : i <= j
Max(S) == CHOOSE i \in S : \A j \in S : i >= j

\* toggleSelection(msg, index) for the item at place i: a selected item is
\* taken out if it is at an end of the selection; an item is added to an
\* empty selection, or if it is next to an end of the selection.
toggleSelection(s, i) ==
  LET uid == Uid(s.messages[i].port, s.messages[i].id)
      idx == SelectedIndices(s)
  IN IF uid \in s.selectedMessages
     THEN IF idx # {} /\ (i = Min(idx) \/ i = Max(idx))
          THEN [s EXCEPT !.selectedMessages = @ \ {uid}] ELSE s
     ELSE IF s.selectedMessages = {}
          THEN [s EXCEPT !.selectedMessages = {uid}]
          ELSE LET minIdx == IF idx = {} THEN i ELSE Min(idx)
                   maxIdx == IF idx = {} THEN i ELSE Max(idx)
               IN IF i = minIdx - 1 \/ i = maxIdx + 1
                  THEN [s EXCEPT !.selectedMessages = @ \cup {uid}] ELSE s

\* clearSelection().
clearSelection(s) == [s EXCEPT !.selectedMessages = {}]

\* getSelectedMessages(): the places of the items whose uid is selected.
getSelectedMessages(s) ==
  {i \in 1..Len(s.messages) :
     Uid(s.messages[i].port, s.messages[i].id) \in s.selectedMessages}

\* getSelectionRange(): the selected items of the lowest and the highest
\* place, as <<first, last>>; <<0, 0>> for null.
getSelectionRange(s) ==
  LET sel == getSelectedMessages(s) IN
  IF sel = {} THEN <<0, 0>> ELSE <<Min(sel), Max(sel)>>

\* selectionRange: null with fewer than two uids selected.
selectionRange(s) ==
  IF Cardinality(s.selectedMessages) < 2 THEN <<0, 0>> ELSE getSelectionRange(s)

\* selectedMsgs.every((msg) => msg.sourcePort === first.sourcePort)
allSamePort(s, sel, first) ==
  \A i \in sel : s.messages[i].port = s.messages[first].port

SamePortError == "Selected subtitles must come from the same connection for audio."

\* The alternative to the function below that does not compare the ports.
requestSelectionAudioRange_any_port(s) ==
  LET range == selectionRange(s) IN
  IF range = <<0, 0>> THEN s
  ELSE requestAudioRange(s, s.messages[range[1]].id, s.messages[range[2]].id,
                         s.messages[range[1]].port)

\* requestSelectionAudioRange(), up to where it waits for the audio: nothing
\* without a range; an error if the selected items are not all of the first
\* one's port; else the range from the first to the last item is asked for
\* on that port.
requestSelectionAudioRange(s) ==
  LET range == selectionRange(s) IN
  IF range = <<0, 0>> THEN s
  ELSE IF ~allSamePort(s, getSelectedMessages(s), range[1])
  THEN [s EXCEPT !.out.toast = SamePortError]
  ELSE requestAudioRange(s, s.messages[range[1]].id, s.messages[range[2]].id,
                         s.messages[range[1]].port)

\* ------------------------------------------------------ sendSelectionToAnki

\* No run of sendSelectionToAnki yet. A run keeps the selection it read when
\* it started (first, lastId, n, mixed), the fields configured, the wait it
\* is suspended on, the fields it has a value for, whether it transmitted a
\* request, the error it showed and whether it updated the note.
NoExport ==
  [phase |-> "idle", sentence |-> FALSE, audio |-> FALSE, image |-> FALSE,
   first |-> 0, lastId |-> 0, n |-> 0, mixed |-> FALSE, w |-> 0,
   fields |-> {}, tx |-> FALSE, error |-> "", updated |-> FALSE]

\* The request a run makes leaves it suspended on the wait started, or has
\* resolved at once.
Awaiting(s, phase) ==
  [s EXCEPT !.exporting.phase = phase,
            !.exporting.w = s.out.w,
            !.exporting.tx = @ \/ s.out.tx > 0]

\* What is kept of a run that has ended: the selection it was for, whether
\* it transmitted a request, the error it showed, whether it updated the note.
Ended(e, text, updated) ==
  [NoExport EXCEPT !.phase = "done", !.n = e.n, !.mixed = e.mixed,
                   !.tx = e.tx, !.error = text, !.updated = updated]

\* catch (err): the error is shown and the run ends.
export_fail(s, text) ==
  [s EXCEPT !.exporting = Ended(@, text, FALSE), !.out.toast = text]

\* The end of the try block: the note is updated if any field has a value.
export_finish(s) ==
  [s EXCEPT !.exporting = Ended(@, "", s.exporting.fields # {})]

\* After the image request: the image is stored and its field set.
export_after_image(s, v) ==
  export_finish([s EXCEPT !.exporting.fields =
                            IF v # NoData THEN @ \cup {"image"} ELSE @])

\* if (imageField): the thumbnail of a single selected item if it is there,
\* else a request for the first item's thumbnail, up to the last item's id
\* if several are selected.
export_image(s) ==
  LET e == s.exporting
      m == s.messages[e.first]
      have == IF e.n = 1 THEN m.thumbnail ELSE NoData
  IN IF ~e.image THEN export_finish(s)
     ELSE IF have # NoData THEN export_after_image(s, have)
     ELSE LET r == requestMediaFromServer(
                     [s EXCEPT !.out.res = Pending], e.first, "thumb",
                     IF e.n > 1 THEN e.lastId ELSE NoEnd)
          IN IF r.out.over THEN r
             ELSE IF r.out.res # Pending
             THEN export_after_image(Awaiting(r, "image"), r.out.res)
             ELSE Awaiting(r, "image")

\* After the audio request: the audio is stored and its field set; then the
\* image.
export_after_audio(s, v) ==
  export_image([s EXCEPT !.exporting.fields =
                           IF v # NoData THEN @ \cup {"audio"} ELSE @])

\* if (audioField): several selected items must all be of the first one's
\* port, else the error is thrown; then the range is asked for, or the first
\* item's audio taken or asked for.
export_audio(s) ==
  LET e == s.exporting
      m == s.messages[e.first]
  IN IF ~e.audio THEN export_image(s)
     ELSE IF e.n > 1 /\ e.mixed THEN export_fail(s, SamePortError)
     ELSE IF e.n = 1 /\ m.audio # NoData THEN export_after_audio(s, m.audio)
     ELSE LET r == IF e.n > 1
                   THEN requestAudioRange(s, m.id, e.lastId, m.port)
                   ELSE requestMediaFromServer(s, e.first, "audio", NoEnd)
          IN IF r.out.over THEN r
             ELSE IF r.out.res # Pending
             THEN export_after_audio(Awaiting(r, "audio"), r.out.res)
             ELSE Awaiting(r, "audio")

\* sendSelectionToAnki() with these fields configured, up to where it waits
\* for Anki's last note: nothing without a selection, else the selection is
\* read and kept.
sendSelectionToAnki(s, sentence, audio, image) ==
  LET sel == getSelectedMessages(s)
      range == getSelectionRange(s)
  IN IF sel = {} \/ range = <<0, 0>> THEN s
     ELSE [s EXCEPT !.exporting =
             [NoExport EXCEPT
                !.phase = "note", !.sentence = sentence, !.audio = audio,
                !.image = image, !.first = range[1],
                !.lastId = s.messages[range[2]].id,
                !.n = Cardinality(sel),
                !.mixed = ~allSamePort(s, sel, range[1])]]

\* Anki has answered with a note that is young enough: the sentence field
\* gets the selected text, then the audio and the image are seen to.
export_note(s) ==
  export_audio([s EXCEPT !.exporting.fields =
                           IF s.exporting.sentence THEN {"sentence"} ELSE {}])

\* Anki has no target note, or one that is too old.
export_no_note(s) == export_fail(s, "No target card found in Anki")

\* The promise of wait w has been resolved with v: the run of
\* sendSelectionToAnki that was suspended on it goes on.
resume(s, w, v) ==
  IF s.exporting.w # w \/ w = 0 THEN s
  ELSE IF s.exporting.phase = "audio" THEN export_after_audio(s, v)
  ELSE IF s.exporting.phase = "image" THEN export_after_image(s, v)
  ELSE s

\* requestThumbnail(msg) / requestAudio(msg), the buttons of the item at
\* place i: nothing without a connection, with the media already there (the
\* audio is played) or with a marker; else the request is sent and the marker
\* set, or an error shown if it could not be sent. No timer is armed.
requestDirect(s, i, kind) ==
  LET m == s.messages[i]
      key == MediaKey(m, kind, NoEnd)
      have == IF kind = "thumb" THEN m.thumbnail ELSE m.audio
  IN IF ~WsConnected(s) \/ have # NoData \/ key \in s.loadingMedia THEN s
     ELSE IF ~sendToPort(s, m.port)
     THEN [s EXCEPT !.out.toast = "Not connected to port"]
     ELSE [Transmit(s, key, 0) EXCEPT !.loadingMedia = @ \cup {key}]

\* ------------------------------------------------- request model: actions

\* What the last handler did, if it was a call of requestMediaFromServer or
\* requestAudioRange that resolved its promise before it returned, or a call
\* of requestSelectionAudioRange; any other handler leaves no record (what it
\* did shows in the state).
NoCall == [op |-> "", key |-> Key("", 0, 0, 0), tx |-> 0, res |-> Pending,
           toast |-> ""]
CDid(op, key, s) ==
  IF (op = "request" /\ s.out.res # Pending) \/ op = "play"
  THEN [op |-> op, key |-> key, tx |-> s.out.tx, res |-> s.out.res,
        toast |-> s.out.toast]
  ELSE NoCall

\* The state after the script has loaded and the page has been set up.
PageInit ==
  /\ messages = <<>>
  /\ loadingMedia = {}
  /\ pendingAudioRange = NoRange
  /\ selectedMessages = {}
  /\ connectedPorts = {}
  /\ waiters = [w \in Waits |-> FreeWait]
  /\ wire = {}
  /\ exporting = NoExport
  /\ clast = NoCall

ClientInit ==
  /\ Init
  /\ PageInit

\* The socket of port p opens.
Open(p) ==
  /\ p \notin connectedPorts
  /\ CInstall([CCur EXCEPT !.connectedPorts = @ \cup {p}])
  /\ clast' = CDid("open", Key("", p, 0, 0), CCur)
  /\ UNCHANGED vars

\* The socket of port p closes.
Close(p) ==
  /\ p \in connectedPorts
  /\ CInstall([CCur EXCEPT !.connectedPorts = @ \ {p}])
  /\ clast' = CDid("close", Key("", p, 0, 0), CCur)
  /\ UNCHANGED vars

\* A subtitle message with this id arrives on port p.
Subtitle(p, id) ==
  /\ p \in connectedPorts
  /\ \A i \in 1..Len(messages) : Uid(messages[i].port, messages[i].id) # Uid(p, id)
  /\ LET s == onSubtitle(CCur, p, id) IN
       /\ CInstall(s)
       /\ clast' = CDid("subtitle", Key("", p, id, 0), s)
  /\ UNCHANGED vars

\* The helper answers the transmission t: a thumbnail or audio message with
\* the id asked for, or an audio_range message with the range asked for.
Response(t) ==
  /\ t \in wire
  /\ t.key.port \in connectedPorts
  /\ LET k == t.key
         got == IF k.kind = "audio_range"
                THEN onAudioRange(CCur, k.port, k.id, k.endId, Media)
                ELSE onMedia(CCur, k.kind, k.port, k.id, Media)
         s == [got EXCEPT !.wire = @ \ {t},
                          !.waiters = Landed(@, k, Media)]
     IN /\ CInstall(s)
        /\ clast' = CDid("response", k, s)
  /\ UNCHANGED vars

\* requestMediaFromServer is called for the item at place i.
CallMedia(i, kind, endId) ==
  /\ i \in 1..Len(messages)
  /\ FreeWaits(CCur) # {}
  /\ LET s == requestMediaFromServer(CCur, i, kind, endId) IN
       /\ CInstall(s)
       /\ clast' = CDid("request", MediaKey(messages[i], kind, endId), s)
  /\ UNCHANGED vars

\* requestAudioRange is called.
CallRange(startId, endId, p) ==
  /\ FreeWaits(CCur) # {}
  /\ LET s == requestAudioRange(CCur, startId, endId, p) IN
       /\ CInstall(s)
       /\ clast' = CDid("request", Key("audio_range", p, startId, endId), s)
  /\ UNCHANGED vars

\* The thumbnail or audio button of the item at place i is clicked.
Click(i, kind) ==
  /\ i \in 1..Len(messages)
  /\ LET s == requestDirect(CCur, i, kind) IN
       /\ CInstall(s)
       /\ clast' = CDid("click", MediaKey(messages[i], kind, NoEnd), s)
  /\ UNCHANGED vars

\* The interval of wait w ticks and its promise is resolved. (A tick that
\* resolves nothing changes nothing.)
Poll(w) ==
  /\ waiters[w].waiting
  /\ PollResolves(CCur, waiters[w])
  /\ LET p == poll(CCur, w)
         s == resume(p, w, p.out.res)
     IN /\ ~s.out.over
        /\ CInstall(s)
       /\ clast' = CDid("poll", WaitKey(waiters[w]), s)
  /\ UNCHANGED vars

\* 10000 ms for a single item, 15000 ms for a range.
Delay(w) == IF w.kind = "audio_range" THEN 15000 ELSE 10000

\* The deadline timer of wait w fires. Timers of the same delay fire in the
\* order they were armed.
Deadline(w) ==
  /\ waiters[w].st = "armed"
  /\ \A v \in Waits :
       (v < w /\ waiters[v].st = "armed") => Delay(waiters[v]) # Delay(waiters[w])
  /\ LET d == deadline(CCur, w)
         s == IF d.out.res # Pending THEN resume(d, w, d.out.res) ELSE d
     IN /\ ~s.out.over
        /\ CInstall(s)
       /\ clast' = CDid("deadline", WaitKey(waiters[w]), s)
  /\ UNCHANGED vars

\* The item at place i is clicked.
ToggleSelection(i) ==
  /\ i \in 1..Len(messages)
  /\ LET s == toggleSelection(CCur, i) IN
       /\ CInstall(s)
       /\ clast' = CDid("toggle", Key("", 0, 0, 0), s)
  /\ UNCHANGED vars

\* The clear button is clicked.
ClearSelection ==
  /\ selectedMessages # {}
  /\ CInstall(clearSelection(CCur))
  /\ clast' = NoCall
  /\ UNCHANGED vars

\* The play button of the selection is clicked.
PlaySelection ==
  /\ LET s == requestSelectionAudioRange(CCur) IN
       /\ ~s.out.over
       /\ CInstall(s)
       /\ clast' = CDid("play", Key("", 0, 0, 0), s)
  /\ UNCHANGED vars

\* The export button is clicked with these fields configured (at least one,
\* and a note type: ankiConfigured). The model follows one run.
ExportSelection(sentence, audio, image) ==
  /\ sentence \/ audio \/ image
  /\ exporting.phase = "idle"
  /\ CInstall(sendSelectionToAnki(CCur, sentence, audio, image))
  /\ clast' = NoCall
  /\ UNCHANGED vars

\* Anki answers the run's getLastNote: with a note young enough or not.
AnkiAnswers(found) ==
  /\ exporting.phase = "note"
  /\ LET s == IF found THEN export_note(CCur) ELSE export_no_note(CCur) IN
       /\ ~s.out.over
       /\ CInstall(s)
       /\ clast' = NoCall
  /\ UNCHANGED vars

EndIds == {NoEnd, LaterId}

\* The media asked for item by item in a run: 'thumbnail'. ('audio' runs the
\* same code with msg.audio in the place of msg.thumbnail.)
MediaKinds == {"thumb"}

ClientNext ==
  \/ \E p \in ClientPorts : Open(p)
  \/ \E p \in ClientPorts : Close(p)
  \/ \E u \in Subs : Subtitle(u[1], u[2])
  \/ \E t \in wire : Response(t)
  \/ \E i \in 1..Cardinality(Subs), kind \in MediaKinds, e \in EndIds :
       CallMedia(i, kind, e)
  \/ \E u \in Subs, p \in ClientPorts : CallRange(u[2], LaterId, p)
  \/ \E i \in 1..Cardinality(Subs), kind \in MediaKinds : Click(i, kind)
  \/ \E w \in Waits : Poll(w)
  \/ \E w \in Waits : Deadline(w)

Next ==
  \/ (\E ok \in BOOLEAN : Start(ok)) /\ UNCHANGED cvars
  \/ Stop /\ UNCHANGED cvars
  \/ (\E ok \in BOOLEAN : Toggle(ok)) /\ UNCHANGED cvars
  \/ (\E h \in Handles, r \in Results, ok \in BOOLEAN : Exit(h, r, ok))
       /\ UNCHANGED cvars
  \/ (\E t \in Handles : Timer(t)) /\ UNCHANGED cvars
  \/ Shutdown /\ UNCHANGED cvars

allvars == <<vars, cvars>>

\* The supervisor, with the page left alone.
Spec == ClientInit /\ [][Next]_allvars

\* The page's requests, with the supervisor left alone.
ClientSpec == ClientInit /\ [][ClientNext]_allvars

\* The requests for one item's thumbnail and for one audio range on port 1,
\* with the helper answering or not.
WaitNext ==
  \/ Open(1)
  \/ \E u \in Subs : Subtitle(u[1], u[2])
  \/ \E t \in wire : Response(t)
  \/ \E i \in 1..Cardinality(Subs), kind \in MediaKinds :
       CallMedia(i, kind, NoEnd)
  \/ \E u \in Subs : CallRange(u[2], LaterId, 1)
  \/ \E w \in Waits : Poll(w)
  \/ \E w \in Waits : Deadline(w)

\* The browser fires every armed timer: a deadline that is armed fires.
WaitFairSpec ==
  /\ ClientInit
  /\ [][WaitNext]_allvars
  /\ \A w \in Waits : WF_allvars(Deadline(w))

\* The subtitles of a run of the selection model, in the order they arrive:
\* two of a player on port 1, then one of a player on port 2.
SelSubs == <<(<<1, 1>>), (<<1, 2>>), (<<2, 1>>)>>

\* The subtitles of the run arrive.
SelSubtitle ==
  \E n \in 1..Len(SelSubs) :
    Len(messages) = n - 1 /\ Subtitle(SelSubs[n][1], SelSubs[n][2])

PlayNext ==
  \/ \E p \in ClientPorts : Open(p)
  \/ SelSubtitle
  \/ \E i \in 1..Len(SelSubs) : ToggleSelection(i)
  \/ ClearSelection
  \/ PlaySelection
  \/ \E t \in wire : Response(t)
  \/ \E w \in Waits : Poll(w)
  \/ \E w \in Waits : Deadline(w)

\* The page's selection and its play button, with the supervisor left alone.
PlaySpec == ClientInit /\ [][PlayNext]_allvars

ExportNext ==
  \/ \E p \in ClientPorts : Open(p)
  \/ SelSubtitle
  \/ \E i \in 1..Len(SelSubs) : ToggleSelection(i)
  \/ ClearSelection
  \/ \E sentence \in BOOLEAN, audio \in BOOLEAN, image \in BOOLEAN :
       ExportSelection(sentence, audio, image)
  \/ \E found \in BOOLEAN : AnkiAnswers(found)
  \/ \E t \in wire : Response(t)
  \/ \E w \in Waits : Poll(w)
  \/ \E w \in Waits : Deadline(w)

\* The page's selection and its export to Anki, with the supervisor left
\* alone.
ExportSpec == ClientInit /\ [][ExportNext]_allvars

\* Subtitle messages received in one run of the store model.
MaxArrivals == 203

\* A player on port 1 sends its next subtitle: it numbers them in order.
StoreSubtitle ==
  /\ NextOid(CCur) <= MaxArrivals
  /\ Subtitle(1, NextOid(CCur))

StoreNext ==
  \/ \E p \in ClientPorts : Open(p)
  \/ \E p \in ClientPorts : Close(p)
  \/ StoreSubtitle

\* The page's item store as the subtitles come in, with the supervisor left
\* alone.
StoreSpec == ClientInit /\ [][StoreNext]_allvars

\* --------------------------------------------------- inbound messages (JSON)

\* A JSON value of a field: a number, a string, or no value at all (the field
\* is missing). Strings are numbered.
Missing == [t |-> "none", v |-> 0]
Num(n) == [t |-> "num", v |-> n]
Str(n) == [t |-> "str", v |-> n]

\* The strings a type field holds in the runs: the four types onMessage
\* knows and one it does not.
TypeNames == <<"subtitle", "thumbnail", "audio", "audio_range", "hello">>

\* asNumber(value): the number, or null (Missing) for anything else.
asNumber(value) == IF value.t = "num" THEN value ELSE Missing

\* asString(value): the string, or null (Missing) for anything else.
asString(value) == IF value.t = "str" THEN value ELSE Missing

\* parseSubtitleMessage(d, port): null (FALSE) unless id, sub_start and
\* sub_end are numbers and subtitle is a string; time_pos may be missing.
parseSubtitleMessage(d) ==
  /\ asNumber(d.id) # Missing
  /\ asString(d.subtitle) # Missing
  /\ asNumber(d.sub_start) # Missing
  /\ asNumber(d.sub_end) # Missing

\* The alternative to the parser below that does not look at data.
parseMediaMessage_id_only(d) == asNumber(d.id) # Missing

\* parseMediaMessage(d): null (FALSE) unless id is a number and data a string.
parseMediaMessage(d) ==
  /\ asNumber(d.id) # Missing
  /\ asString(d.data) # Missing

\* parseAudioRangeMessage(d): null (FALSE) unless start_id and end_id are
\* numbers and data is a string.
parseAudioRangeMessage(d) ==
  /\ asNumber(d.start_id) # Missing
  /\ asNumber(d.end_id) # Missing
  /\ asString(d.data) # Missing

\* The alternative to onMessage below that stores a subtitle message whatever
\* its fields are and takes any other message for a thumbnail.
onMessage_lenient(s, d, port) ==
  IF d.type.t = "str" /\ TypeNames[d.type.v] = "subtitle"
  THEN onSubtitle(s, port, d.id.v)
  ELSE [onMedia(s, "thumb", port, d.id.v, d.data.v) EXCEPT
          !.waiters = Landed(@, ResponseKey("thumb", port, d.id.v), d.data.v)]

\* onMessage(data, port): the handler of every message a socket receives.
onMessage(s, d, port) ==
  IF d.type.t # "str" THEN s
  ELSE LET type == TypeNames[d.type.v] IN
    IF type = "subtitle"
    THEN IF ~parseSubtitleMessage(d) THEN s ELSE onSubtitle(s, port, d.id.v)
    ELSE IF type = "thumbnail" \/ type = "audio"
    THEN IF ~parseMediaMessage(d) THEN s
         ELSE LET kind == IF type = "thumbnail" THEN "thumb" ELSE "audio" IN
              [onMedia(s, kind, port, d.id.v, d.data.v) EXCEPT
                 !.waiters = Landed(@, ResponseKey(kind, port, d.id.v), d.data.v)]
    ELSE IF type = "audio_range"
    THEN IF ~parseAudioRangeMessage(d) THEN s
         ELSE [onAudioRange(s, port, d.start_id.v, d.end_id.v, d.data.v) EXCEPT
                 !.waiters = Landed(@, Key("audio_range", port, d.start_id.v,
                                           d.end_id.v), d.data.v)]
    ELSE s

\* A message with every field of every type in place; its type is names[k].
Whole(k, id) ==
  [type |-> Str(k), id |-> Num(id), subtitle |-> Str(1), sub_start |-> Num(1),
   sub_end |-> Num(2), time_pos |-> Num(1), data |-> Str(Media),
   start_id |-> Num(id), end_id |-> Num(LaterId)]

\* The ids the players of a run give their subtitles.
InboxIds == {1, 2}

\* The well-formed subtitle messages of a run.
SubtitleMsgs == {Whole(1, id) : id \in InboxIds}

\* The values a field takes in a message that is not well formed: none, or
\* one of the wrong type.
BadNum == {Missing, Str(1)}
BadStr == {Missing, Num(1)}

\* The messages of a run that are well formed but for one field.
Malformed ==
  LET w(k) == Whole(k, 1) IN
       {[w(1) EXCEPT !.id = b] : b \in BadNum}
  \cup {[w(1) EXCEPT !.subtitle = b] : b \in BadStr}
  \cup {[w(1) EXCEPT !.sub_start = b] : b \in BadNum}
  \cup {[w(1) EXCEPT !.sub_end = b] : b \in BadNum}
  \cup UNION {{[w(k) EXCEPT !.id = b] : b \in BadNum} : k \in {2, 3}}
  \cup UNION {{[w(k) EXCEPT !.data = b] : b \in BadStr} : k \in {2, 3}}
  \cup {[w(4) EXCEPT !.start_id = b] : b \in BadNum}
  \cup {[w(4) EXCEPT !.end_id = b] : b \in BadNum}
  \cup {[w(4) EXCEPT !.data = b] : b \in BadStr}

\* The messages of a run whose type is missing, not a string, or unknown.
Untyped == {[Whole(1, 1) EXCEPT !.type = b] : b \in {Missing, Num(1), Str(5)}}

\* The messages a socket receives in a run: the well-formed ones of every
\* type (a subtitle message also without time_pos), and the others.
Inbox ==
       SubtitleMsgs
  \cup {[Whole(1, 1) EXCEPT !.time_pos = Missing]}
  \cup {Whole(k, 1) : k \in {2, 3, 4}}
  \cup Malformed \cup Untyped

\* Subtitle messages stored in one run of the inbox and the pick models.
MaxInbox == 3

\* The socket of port p receives the message d.
Inbound(d, p) ==
  /\ p \in connectedPorts
  /\ LET s == onMessage(CCur, d, p) IN
       /\ NextOid(s) <= MaxInbox + 1
       /\ CInstall(s)
       /\ clast' = CDid("message", Key("", p, 0, 0), s)
  /\ UNCHANGED vars

InboxNext ==
  \/ Open(1)
  \/ \E d \in Inbox : Inbound(d, 1)
  \/ \E i \in 1..MaxInbox, kind \in {"thumb", "audio"} : Click(i, kind)
  \/ \E i \in 1..MaxInbox : ToggleSelection(i)

\* The page's message handler with whatever its socket receives, the media
\* buttons and the selection, with the supervisor left alone.
InboxSpec == ClientInit /\ [][InboxNext]_allvars

PickNext ==
  \/ \E p \in ClientPorts : Open(p)
  \/ \E d \in SubtitleMsgs, p \in ClientPorts : Inbound(d, p)
  \/ \E i \in 1..MaxInbox : ToggleSelection(i)
  \/ ClearSelection

\* The page's selection over subtitles that players number as they like, with
\* the supervisor left alone.
PickSpec == ClientInit /\ [][PickNext]_allvars

\* The places of the store that are clicked in a run of the eviction model.
MaxPick == 3

EvictNext ==
  \/ Open(1)
  \/ StoreSubtitle
  \/ \E i \in 1..MaxPick : ToggleSelection(i)
  \/ ClearSelection

\* The page's selection as the store fills up and evicts, with the supervisor
\* left alone.
EvictSpec == ClientInit /\ [][EvictNext]_allvars

\* The helper answers the transmission t, as in Response, and the answer is
\* kept as the last thing that happened.
Answer(t) ==
  /\ t \in wire
  /\ t.key.port \in connectedPorts
  /\ LET k == t.key
         got == IF k.kind = "audio_range"
                THEN onAudioRange(CCur, k.port, k.id, k.endId, Media)
                ELSE onMedia(CCur, k.kind, k.port, k.id, Media)
         s == [got EXCEPT !.wire = @ \ {t},
                          !.waiters = Landed(@, k, Media)]
     IN /\ CInstall(s)
        /\ clast' = [NoCall EXCEPT !.op = "response", !.key = k]
  /\ UNCHANGED vars

\* No answer has landed that its caller has not seen yet.
NothingLanded == \A w \in Waits : waiters[w].landed = NoData

\* Calls are made while nothing has landed: a call made after the data of
\* another has landed could not tick before that other does, its interval
\* being the younger one.
OrderNext ==
  \/ Open(1)
  \/ SelSubtitle
  \/ \E i \in 1..2, kind \in MediaKinds :
       NothingLanded /\ CallMedia(i, kind, NoEnd)
  \/ \E t \in wire : Answer(t)
  \/ \E w \in Waits : Poll(w)
  \/ \E w \in Waits : Deadline(w)

\* Requests for the media of two items and their answers, with the
\* supervisor left alone.
OrderSpec == ClientInit /\ [][OrderNext]_allvars

\* The well-formed thumbnail and audio messages of a run.
MediaMsgs == {Whole(k, id) : k \in {2, 3}, id \in InboxIds}

MediaNext ==
  \/ \E p \in ClientPorts : Open(p)
  \/ \E d \in {Whole(k, 1) : k \in {1, 2, 3}}, p \in ClientPorts : Inbound(d, p)
  \/ \E i \in 1..MaxInbox, kind \in {"thumb", "audio"} : Click(i, kind)

\* The page's store with the subtitles and the media of two players that give
\* their subtitles the same id, and the media buttons, with the supervisor left
\* alone.
MediaSpec == ClientInit /\ [][MediaNext]_allvars

\* ------------------------------------------------------ loading the script

\* The state read_options leaves. opts.ports is the string of the
\* configuration file (over the comma, two digits and a letter, and three
\* longer strings around the largest port), or the table written in the
\* script (over an entry below the range, one in it and one above it).
LoadInit ==
  LET chars == {",", "0", "7", "a"}
      long == {<<"6", "5", "5", "3", "5">>, <<"6", "5", "5", "3", "6">>,
               <<"7", ",", "6", "5", "5", "3", "6">>}
      texts == UNION {[1..n -> chars] : n \in 0..MaxOpts} \cup long
      tables == UNION {[1..n -> {0, 7, MaxPort + 1}] : n \in 0..MaxOpts}
  IN /\ opts \in {[type |-> "string", text |-> str, ports |-> <<>>, pc |-> "raw"] :
                    str \in texts}
                  \cup {[type |-> "table", text |-> <<>>, ports |-> list,
                         pc |-> "raw"] : list \in tables}
     /\ ScriptInit
     /\ PageInit

\* The script's top level runs, from read_options to the check of the list.
Load ==
  /\ opts.pc = "raw"
  /\ opts' = load_script(opts)
  /\ UNCHANGED <<server_process, server_running, current_port, startup_timer,
                 timers, procs, shut, scen, last>>
  /\ UNCHANGED cvars

\* The script from its loading on: the handlers exist once the top level has
\* run past the check of the list.
LoadNext ==
  \/ Load
  \/ opts.pc = "ready" /\ (\E ok \in BOOLEAN : Start(ok)) /\ UNCHANGED cvars
  \/ /\ opts.pc = "ready"
     /\ \E h \in Handles, r \in Results, ok \in BOOLEAN : Exit(h, r, ok)
     /\ UNCHANGED cvars

LoadSpec == LoadInit /\ [][LoadNext]_allvars

\* ------------------------------------------------------------ properties

Idle == server_process = NoProc /\ ~server_running

Active == server_running \/ server_process # NoProc

Upto(n) == [i \in 1..n |-> i]

\* Processes that have neither exited nor been asked to terminate.
Unstopped == {h \in Handles : procs[h].alive /\ ~procs[h].aborted}

\* C1: when, after a start with nothing left over, the first k candidates exit
\* with an address-in-use signal and the confirmation timeout then fires, the
\* supervisor is Confirmed on candidate k+1 (flag set, handle of a live process
\* spawned on index k+1, current_port its port) and the helper was spawned on
\* exactly the indexes 1..k+1, in that order, once each.
C1_ProbeEndsConfirmed ==
  scen.phase = "confirmed" =>
    /\ server_running
    /\ server_process \in Handles
    /\ procs[server_process].alive
    /\ procs[server_process].idx = scen.k + 1
    /\ current_port = ports[scen.k + 1]
    /\ scen.log = Upto(scen.k + 1)
    /\ Unstopped = {server_process}

C1_Witness ==
  /\ scen.phase = "confirmed"
  /\ scen.k >= 1
  /\ server_running

\* C2: while fewer than NumPorts candidates have exited with an address-in-use
\* signal the supervisor holds a helper on the next candidate; when every one
\* of the NumPorts candidates has, it has spawned exactly NumPorts times
\* (indexes 1..NumPorts), reports the exhaustion, and is left with no handle,
\* not confirmed, no timer held or armed, and no process.
C2_ProbeEndsExhausted ==
  /\ scen.phase = "probing" =>
       /\ scen.k < NumPorts
       /\ server_process \in Handles
       /\ procs[server_process].alive
       /\ procs[server_process].idx = scen.k + 1
       /\ scen.log = Upto(scen.k + 1)
  /\ scen.phase = "exhausted" =>
    /\ scen.log = Upto(NumPorts)
    /\ last.spawned = 0
    /\ last.msg = "Failed to start server on any port"
    /\ server_process = NoProc
    /\ ~server_running
    /\ startup_timer = NoTimer
    /\ timers = {}
    /\ Running = {}

C2_Witness ==
  /\ scen.phase = "exhausted"
  /\ scen.k = NumPorts
  /\ last.op = "exit"

\* C3: there are never two helper processes that have both neither exited nor
\* been asked to terminate.
C3_AtMostOneInstance == Cardinality(Unstopped) <= 1

\* C4: a spawn on a candidate after the first happens only in the callback of
\* an exit whose stderr carries the address-in-use signal and no other; an exit
\* whose stderr carries the identity-mismatch or the connect-failure signal
\* spawns nothing and leaves no handle and the flag unset.
C4_OnlyPortConflictAdvances ==
  /\ last.spawned > 1 => last.op = "exit" /\ last.marks = {"port"}
  /\ (last.op = "exit" /\ last.marks \cap {"mismatch", "connect"} # {}) =>
       /\ last.spawned = 0
       /\ Idle
       /\ current_port = NoPort

C4_Witness ==
  /\ last.op = "exit"
  /\ "port" \in last.marks
  /\ last.marks \cap {"mismatch", "connect"} # {}
  /\ Idle

\* C5: a start_server() that finds the flag set or a handle present spawns
\* nothing and leaves handle, flag, current port, the timer held and the timers
\* armed, and the processes as they are.
C5_StartWhileActiveIsNoOp ==
  [][(last'.op = "start" /\ Active) =>
       /\ last'.spawned = 0
       /\ UNCHANGED <<server_process, server_running, current_port,
                      startup_timer, timers, procs>>]_vars

C5_Witness ==
  /\ last.op = "start"
  /\ last.pid # NoProc
  /\ ~last.pre_running
  /\ server_process = last.pid
  /\ startup_timer # NoTimer

\* C6: a stop_server() that finds no handle changes nothing; one that finds a
\* handle requests the termination of that process and of no other and, in
\* the same step, with the process not yet exited, leaves no handle and the
\* flag unset.
C6_StopClearsAtOnce ==
  [][last'.op = "stop" =>
       IF server_process = NoProc
       THEN UNCHANGED <<server_process, server_running, current_port,
                        startup_timer, timers, procs>>
       ELSE /\ procs' = [procs EXCEPT ![server_process].aborted = TRUE]
            /\ procs'[server_process].alive
            /\ server_process' = NoProc
            /\ server_running' = FALSE]_vars

C6_Witness ==
  /\ last.op = "stop"
  /\ last.pid # NoProc
  /\ last.pre_running
  /\ procs[last.pid].alive
  /\ procs[last.pid].aborted
  /\ Idle

\* C7: after the shutdown handler no confirmation timer is held and the
\* termination of the process the supervisor holds has been requested, also
\* when that process is not confirmed yet.
C7_TeardownTerminates ==
  shut =>
    /\ startup_timer = NoTimer
    /\ server_process # NoProc => procs[server_process].aborted

\* C8: a confirmation timeout fires only while the process it was armed for
\* has neither exited nor been stopped (after the shutdown nothing fires).
C8_TimerCancelled ==
  last.op = "timer" =>
    /\ procs[last.pid].alive
    /\ ~procs[last.pid].aborted

\* C9: the parts of the claim. A toggle that finds the helper active or
\* starting stops it; a toggle that finds neither tries the first candidate;
\* stop leaves the supervisor Idle.
C9_ToggleStops ==
  (last'.op = "toggle" /\ Active) =>
    /\ server_process' = NoProc
    /\ server_running' = FALSE
    /\ last'.spawned = 0
    /\ server_process # NoProc => procs'[server_process].aborted

C9_ToggleStarts ==
  (last'.op = "toggle" /\ ~Active) =>
    /\ current_port' = ports[1]
    /\ \/ /\ last'.spawned = 1
          /\ server_process' # NoProc
          /\ procs'[server_process'].idx = 1
          /\ ~server_running'
       \/ /\ last'.msg = "Failed to start server"
          /\ server_process' = NoProc

C9_StopIdle == last'.op = "stop" => Idle'

\* C9 as claimed: ... and the exit of a process found Confirmed leaves the
\* supervisor Idle.
C9_ReturnsToIdle ==
  [][/\ C9_ToggleStops
     /\ C9_ToggleStarts
     /\ C9_StopIdle
     /\ (last'.op = "exit" /\ server_running) => Idle']_vars

\* C9 as amended: ... and the exit of a process leaves the supervisor Idle
\* unless its stderr carries the address-in-use signal and no other; then the
\* next candidate is spawned, or the supervisor is Idle when there is none or
\* the spawn yields no handle.
C9_ReturnsToIdleUnlessPortConflict ==
  [][/\ C9_ToggleStops
     /\ C9_ToggleStarts
     /\ C9_StopIdle
     /\ (last'.op = "exit" /\ last'.marks # {"port"}) => Idle'
     /\ (last'.op = "exit" /\ last'.marks = {"port"}) =>
          \/ /\ last'.spawned = procs[last'.pid].idx + 1
             /\ server_process' # NoProc
             /\ procs'[server_process'].idx = last'.spawned
             /\ ~server_running'
          \/ /\ last'.spawned = 0
             /\ Idle']_vars

C9_Witness ==
  /\ last.op = "toggle"
  /\ last.pre_running
  /\ last.pid # NoProc
  /\ procs[last.pid].aborted
  /\ Idle

\* C10: the callback of an exit whose stderr carries none of the signals shows
\* a 'server stopped' notice only if the exiting process itself had been
\* confirmed.
C10_ReportOnlyIfConfirmed ==
  (/\ last.op = "exit"
   /\ last.marks = {}
   /\ last.msg \in {"server stopped", "server stopped (error)"})
    => last.was_confirmed


\* ------------------------------------------- properties of the web client

\* Wait w is started by the step: a call of requestMediaFromServer or
\* requestAudioRange has returned a pending promise.
Started(w) == waiters[w].st = "free" /\ waiters'[w].st = "armed"

\* The waits whose promise is pending on key.
WaitingOn(key) == {v \in Waits : waiters[v].waiting /\ WaitKey(waiters[v]) = key}

\* C11: a call for a key made while the promise of an earlier call for the
\* same key is pending joins that call: it transmits nothing.
C11_SecondCallJoins ==
  [][\A w \in Waits :
       (Started(w) /\ WaitingOn(WaitKey(waiters'[w])) # {})
         => (wire' = wire /\ ~waiters'[w].issuer)]_cvars

\* The transmissions for key that are in flight: not answered, and the
\* deadline of the call that sent them not reached (a button's request has
\* no deadline).
InFlight(key) ==
  {t \in wire : t.key = key /\ (t.by = 0 \/ waiters[t.by].st = "armed")}

\* C12: no request for a key is transmitted while an earlier transmission for
\* the same key is in flight.
C12_OneInFlightPerKey ==
  [][\A t \in wire' \ wire : InFlight(t.key) = {}]_cvars

\* What the deadline of a pending wait does to its promise, were it to fire
\* now: resolve it, and with none if there is no data to read.
DeadlineResolves(w) ==
  LET s == deadline(CCur, w) IN
    /\ ~s.waiters[w].waiting
    /\ s.out.res # Pending
    /\ Seen(CCur, waiters[w]) = NoData => s.out.res = NoData

\* C13: every call resolves: a promise that is pending has its deadline armed,
\* the deadline resolves it (with none if no data is there), and so every
\* pending promise is resolved in the end.
C13_EveryCallResolves ==
  /\ [](\A w \in Waits :
          waiters[w].waiting => (waiters[w].st = "armed" /\ DeadlineResolves(w)))
  /\ \A w \in Waits : waiters[w].waiting ~> ~waiters[w].waiting

\* An issuer whose request was never answered has been resolved at its
\* deadline, and so has a call that joined it.
C13_Witness ==
  /\ waiters[1].st = "gone"
  /\ waiters[2].st = "gone"
  /\ \E t \in wire : t.by = 1
  /\ \A t \in wire : t.by = 1

\* C14: a call that finds no marker for its key and cannot send (the page is
\* connected, but not on the key's port) is resolved at once with none, has
\* transmitted nothing and leaves no marker: a call for the same key made
\* once the port is connected transmits.
C14_FailedSendLeavesNoMarker ==
  (clast.op = "request" /\ WsConnected(CCur))
    => /\ clast.res = NoData
       /\ clast.tx = 0
       /\ clast.key \notin loadingMedia
       /\ FreeWaits(CCur) # {} =>
            Request([CCur EXCEPT !.connectedPorts = @ \cup {clast.key.port}],
                    clast.key, 0).out.tx = 1

\* A call has been resolved at once because its port is not connected, while
\* another port is.
C14_Witness ==
  /\ clast.op = "request"
  /\ clast.res = NoData
  /\ WsConnected(CCur)
  /\ clast.key.port \notin connectedPorts
  /\ FreeWaits(CCur) # {}

\* C15: a call that joined is not resolved with none before its own deadline:
\* no tick of its interval resolves it with none.
C15_JoinerKeepsOwnDeadline ==
  \A w \in Waits :
    (waiters[w].waiting /\ ~waiters[w].issuer)
      => poll(CCur, w).out.res # NoData

\* C16: every call that was waiting on a key when its response came in is
\* resolved with that response's data: the next tick of its interval
\* resolves it with the data.
C16_AllWaitersGetTheResponse ==
  \A w \in Waits :
    (waiters[w].waiting /\ waiters[w].landed # NoData)
      => poll(CCur, w).out.res = waiters[w].landed

\* C17: every marker is removed in the end, also when no response comes.
\* Without a response only the deadline of a call that issued for the key
\* removes its marker, so every marker has such a deadline armed.
C17_EveryMarkerHasADeadline ==
  \A key \in loadingMedia :
    \E w \in Waits : /\ waiters[w].st = "armed"
                     /\ waiters[w].issuer
                     /\ WaitKey(waiters[w]) = key

\* The selection holds items of two different ports.
MixedSelection ==
  \E i \in getSelectedMessages(CCur), j \in getSelectedMessages(CCur) :
    messages[i].port # messages[j].port

\* C18: the play button of a selection with items of two different ports
\* shows the error, transmits nothing and sets no marker.
C18_MixedPortRangeRejected ==
  [][(clast'.op = "play" /\ MixedSelection)
       => /\ clast'.toast = SamePortError
          /\ clast'.tx = 0
          /\ wire' = wire
          /\ loadingMedia' = loadingMedia
          /\ waiters' = waiters]_cvars

\* The play button has been clicked with the page connected on both ports
\* and a selection of items of both ports, and has shown the error.
C18_Witness ==
  /\ clast.op = "play"
  /\ clast.toast = SamePortError
  /\ MixedSelection
  /\ connectedPorts = ClientPorts

\* C19: an export of a selection of several items of two different ports is
\* rejected, whichever fields are configured: once Anki has answered, the run
\* has ended with an error, has transmitted no request and updated no note.
C19_MixedPortExportRejected ==
  (exporting.n > 1 /\ exporting.mixed /\ exporting.phase \notin {"idle", "note"})
    => /\ exporting.phase = "done"
       /\ exporting.error # ""
       /\ ~exporting.tx
       /\ ~exporting.updated

\* C20: the store never holds more than 200 items, and an item that comes in
\* when it holds 200 evicts the oldest one and nothing else: the others keep
\* their order and the new one is last.
C20_StoreCapped ==
  /\ [](Len(messages) <= MaxMessages)
  /\ [][(Len(messages) = MaxMessages /\ messages' # messages)
          => /\ Len(messages') = MaxMessages
             /\ SubSeq(messages', 1, MaxMessages - 1) = Tail(messages)
             /\ messages'[MaxMessages].oid = messages[MaxMessages].oid + 1]_cvars

\* The store is full and its oldest items have been evicted.
C20_Witness ==
  /\ Len(messages) = MaxMessages
  /\ messages[1].oid = 3

\* The uids of the items in the store.
StoredUids == {Uid(messages[i].port, messages[i].id) : i \in 1..Len(messages)}

\* C21: every selected identifier is the identifier of an item that is in
\* the store; the step that evicts a selected item takes it out of the
\* selection.
C21_SelectionInStore == selectedMessages \subseteq StoredUids

\* The places of the store whose item is selected.
SelectedPlaces == getSelectedMessages(CCur)

\* The places of S are one unbroken run (or none).
Contiguous(S) == \A i \in S, j \in S : \A k \in i..j : k \in S

\* C22: in every reachable state the places of the selected items in the
\* store are none or one unbroken run of consecutive places.
C22_SelectionContiguous == Contiguous(SelectedPlaces)

\* The uid of the item at place i of the store.
UidAt(i) == Uid(messages[i].port, messages[i].id)

\* C23: with a selection that is not empty, a click on an item that is not
\* selected adds it if and only if its place is one before the lowest or one
\* after the highest selected place; at any other place it changes nothing.
C23_AddsOnlyNextToTheRun ==
  \A i \in 1..Len(messages) :
    (selectedMessages # {} /\ UidAt(i) \notin selectedMessages) =>
      LET next == /\ SelectedPlaces # {}
                  /\ \/ i = Min(SelectedPlaces) - 1
                     \/ i = Max(SelectedPlaces) + 1
          after == toggleSelection(CCur, i).selectedMessages
      IN IF next THEN after = selectedMessages \cup {UidAt(i)}
                 ELSE after = selectedMessages

\* C24: a click on a selected item takes it out of the selection if and only
\* if its place is the lowest or the highest selected place (a selection of
\* one becomes empty); a click on a selected item in between changes nothing.
C24_RemovesOnlyAtTheEnds ==
  \A i \in 1..Len(messages) :
    UidAt(i) \in selectedMessages =>
      LET atEnd == i = Min(SelectedPlaces) \/ i = Max(SelectedPlaces)
          after == toggleSelection(CCur, i).selectedMessages
      IN IF atEnd THEN after = selectedMessages \ {UidAt(i)}
                  ELSE after = selectedMessages

\* C25: selectionRange() is a range exactly when two or more items of the
\* store are selected, and then its first is the selected item of the lowest
\* place and its last the one of the highest, the first before the last.
C25_RangeOfTwoOrMore ==
  LET r == selectionRange(CCur) IN
  /\ (r # <<0, 0>>) <=> (Cardinality(SelectedPlaces) >= 2)
  /\ r # <<0, 0>> =>
       /\ r[1] = Min(SelectedPlaces)
       /\ r[2] = Max(SelectedPlaces)
       /\ r[1] < r[2]

\* The handler leaves the store, the markers, the range slot and the
\* selection as they are, and sends and shows nothing, when it is given d on
\* port 1.
Dropped(d) ==
  LET s == onMessage(CCur, d, 1) IN
  /\ s.out = NoOut
  /\ s.messages = messages
  /\ s.loadingMedia = loadingMedia
  /\ s.pendingAudioRange = pendingAudioRange
  /\ s.selectedMessages = selectedMessages

\* The type of d is missing, is not a string, or is none of the four known.
NoKnownType(d) ==
  \/ d.type.t # "str"
  \/ TypeNames[d.type.v] \notin {"subtitle", "thumbnail", "audio", "audio_range"}

\* C26: a message whose type is missing, not a string, or none of subtitle,
\* thumbnail, audio and audio_range is dropped: store, markers, range slot
\* and selection stay as they are.
C26_UnknownTypeDropped ==
  \A d \in Inbox : NoKnownType(d) => Dropped(d)

\* A store with an item that has no thumbnail yet, a marker, a range result
\* and a selection, where a message of no known type is dropped.
C26_Witness ==
  /\ \E i \in 1..Len(messages) : messages[i].id = 1 /\ messages[i].thumbnail = NoData
  /\ loadingMedia # {}
  /\ pendingAudioRange # NoRange
  /\ selectedMessages # {}
  /\ \E d \in Inbox : NoKnownType(d) /\ Dropped(d)

\* C27: the store never holds two items of the same port and the same id.
C27_ItemsUnique ==
  \A i \in 1..Len(messages), j \in 1..Len(messages) :
    (messages[i].port = messages[j].port /\ messages[i].id = messages[j].id)
      => i = j

\* The ports a request may name that are not connected; 0 is no port.
Unconnected == (ClientPorts \cup {0}) \ connectedPorts

\* The handler s transmitted nothing and set no marker.
NothingSent(s) ==
  /\ s.out.tx = 0
  /\ s.wire = wire
  /\ s.loadingMedia = loadingMedia

\* C28: nothing is sent to a port that is not connected, whether or not
\* another port is: sendToPort gives false, and a request for such a port, by
\* a button or by requestMediaFromServer or requestAudioRange, transmits
\* nothing and sets no marker.
C28_NoSendOnUnconnectedPort ==
  /\ \A p \in Unconnected : ~sendToPort(CCur, p)
  /\ \A i \in 1..Len(messages) :
       messages[i].port \in Unconnected =>
         /\ \A kind \in {"thumb", "audio"} : NothingSent(requestDirect(CCur, i, kind))
         /\ FreeWaits(CCur) # {} =>
              \A kind \in {"thumb", "audio"}, e \in EndIds :
                NothingSent(requestMediaFromServer(CCur, i, kind, e))
  /\ FreeWaits(CCur) # {} =>
       \A p \in Unconnected : NothingSent(requestAudioRange(CCur, 1, LaterId, p))

\* A thumbnail has been asked for from an item whose port is not connected
\* while the other port is, and nothing is on the wire and no marker is set.
C28_Witness ==
  /\ clast.op = "request"
  /\ clast.key.kind = "thumb"
  /\ clast.tx = 0
  /\ clast.key.port \in Unconnected
  /\ connectedPorts # {}
  /\ wire = {}
  /\ loadingMedia = {}

\* C29: callers are resolved in the order their data lands: when the data of
\* the key y waits on has just landed and the data of the key x waits on
\* landed before it, y is not resolved while x is left waiting.
C29_ResolvedInLandingOrder ==
  [][\A x \in Waits, y \in Waits :
       ( /\ waiters[x].waiting /\ waiters[y].waiting
         /\ WaitKey(waiters[x]) # WaitKey(waiters[y])
         /\ waiters[x].landed # NoData
         /\ clast.op = "response" /\ clast.key = WaitKey(waiters[y]) )
       => ~(~waiters'[y].waiting /\ waiters'[x].waiting)]_allvars

\* d has a known type and lacks a field that type needs: a subtitle message
\* a numeric id, sub_start or sub_end or a string subtitle; a thumbnail or
\* audio message a numeric id or a string data; an audio_range message a
\* numeric start_id or end_id or a string data.
LacksAField(d) ==
  /\ d.type.t = "str"
  /\ LET type == TypeNames[d.type.v] IN
     \/ /\ type = "subtitle"
        /\ \/ d.id.t # "num" \/ d.subtitle.t # "str"
           \/ d.sub_start.t # "num" \/ d.sub_end.t # "num"
     \/ /\ type \in {"thumbnail", "audio"}
        /\ (d.id.t # "num" \/ d.data.t # "str")
     \/ /\ type = "audio_range"
        /\ (d.start_id.t # "num" \/ d.end_id.t # "num" \/ d.data.t # "str")

\* C30: a message that lacks a field its type needs is dropped whole: the
\* store, the markers and the range slot stay as they are.
C30_MalformedDroppedWhole ==
  \A d \in Inbox :
    LacksAField(d) =>
      LET s == onMessage(CCur, d, 1) IN
      /\ s.messages = messages
      /\ s.loadingMedia = loadingMedia
      /\ s.pendingAudioRange = pendingAudioRange

\* A thumbnail message without string data is dropped while the item it names
\* is in the store without a thumbnail and its marker is set.
C30_Witness ==
  /\ \E i \in 1..Len(messages) : messages[i].id = 1 /\ messages[i].thumbnail = NoData
  /\ Key("thumb", 1, 1, NoEnd) \in loadingMedia
  /\ \E d \in Inbox :
       /\ LacksAField(d) /\ d.type = Str(2) /\ d.id = Num(1)
       /\ onMessage(CCur, d, 1).loadingMedia = loadingMedia

\* ------------------------------------- more properties of the web client

\* C31: a thumbnail or audio message for id i received on port p changes
\* nothing in the store but the thumbnail, or the audio, of an item of port p
\* and id i: every other item, and every item if there is none of port p and
\* id i, is left as it is; and the marker of (kind, p, i) is gone, and no
\* other.
C31_MediaLandsOnItsItem ==
  \A d \in MediaMsgs, p \in ClientPorts :
    LET s == onMessage(CCur, d, p)
        kind == IF TypeNames[d.type.v] = "thumbnail" THEN "thumb" ELSE "audio"
    IN /\ Len(s.messages) = Len(messages)
       /\ \A i \in 1..Len(messages) :
            IF messages[i].port = p /\ messages[i].id = d.id.v
            THEN IF kind = "thumb"
                 THEN [s.messages[i] EXCEPT !.thumbnail = 0] =
                        [messages[i] EXCEPT !.thumbnail = 0]
                 ELSE [s.messages[i] EXCEPT !.audio = 0] =
                        [messages[i] EXCEPT !.audio = 0]
            ELSE s.messages[i] = messages[i]
       /\ (\E i \in 1..Len(messages) :
             messages[i].port = p /\ messages[i].id = d.id.v)
            => \E i \in 1..Len(messages) :
                 /\ messages[i].port = p /\ messages[i].id = d.id.v
                 /\ IF kind = "thumb" THEN s.messages[i].thumbnail = d.data.v
                                      ELSE s.messages[i].audio = d.data.v
       /\ s.loadingMedia = loadingMedia \ {Key(kind, p, d.id.v, NoEnd)}

\* The thumbnail for id 1 has landed on the item of port 1 while the item of
\* port 2 with the same id still waits for its own.
C31_Witness ==
  /\ \E i \in 1..Len(messages) :
       messages[i].port = 1 /\ messages[i].id = 1 /\ messages[i].thumbnail = Media
  /\ \E i \in 1..Len(messages) :
       messages[i].port = 2 /\ messages[i].id = 1 /\ messages[i].thumbnail = NoData
  /\ Key("thumb", 2, 1, NoEnd) \in loadingMedia
  /\ Key("thumb", 1, 1, NoEnd) \notin loadingMedia

\* The entry p of a port list is a port number.
InRange(p) == 0 < p /\ p <= MaxPort

\* The ports string or table the script was loaded with has left it with a
\* list it goes on with.
PastTheCheck == opts.pc = "ready"

\* C32: once the script is past the check of its port list, the list the
\* supervisor tries is non-empty and every entry of it is above 0 and at most
\* 65535, whether opts.ports was a string or a table; and a script that did
\* not get past the check has spawned no helper.
C32_CandidatesInRange ==
  /\ PastTheCheck => /\ Len(ports) > 0
                     /\ \A i \in 1..Len(ports) : InRange(ports[i])
  /\ ~PastTheCheck => \A h \in Handles : procs[h] = NoProcRec

\* --------------------------------- more properties of the process supervisor

\* C33: once stop_server() has stopped a process, nothing is spawned before
\* the next start: the exit callback that runs right after the stop spawns
\* nothing, whatever the stderr of the process holds.
C33_NoSpawnAfterStop ==
  [][(last.op = "stop" /\ last'.op = "exit") => last'.spawned = 0]_vars

\* C34: the exit callback of a process whose termination was requested, run
\* while the supervisor holds a newer process, leaves the handle, the
\* confirmation timer and the confirmed flag of that newer process alone.
C34_StaleExitLeavesNewerAlone ==
  [][( /\ last'.op = "exit"
       /\ procs[last'.pid].aborted
       /\ server_process # NoProc
       /\ server_process # last'.pid )
     => UNCHANGED <<server_process, startup_timer, timers, server_running>>]_vars

\* C35: a process is marked confirmed only by the timeout armed at its own
\* spawn: the timeout that sets the flag is the one of the process held.
C35_ConfirmedByOwnTimer ==
  (last.op = "timer" /\ last.msg = "server started on port")
    => server_process = last.pid

\* C36: the confirmed flag is set only while a process handle is held.
C36_RunningOnlyWithHandle == server_running => server_process # NoProc

\* The flag is set and a handle held after the callback of a stopped process
\* has cleared both and a later process has been confirmed.
C36_Witness ==
  /\ server_running
  /\ server_process # NoProc
  /\ last.op = "timer"
  /\ \E h \in Handles : h # server_process /\ procs[h].alive /\ procs[h].aborted

\* C37: an exit is classified by fixed priority: with the identity-mismatch
\* marker in its stderr as IdentityMismatch, else with a connect-failure
\* marker as Unreachable, whether or not an address-in-use signal is there as
\* well, and neither spawns on the next port; as PortInUse only with an
\* address-in-use signal and neither marker.
C37_ClassifiedByPriority ==
  /\ \A text \in StderrTexts :
       Classify(text) =
         IF "mismatch" \in Signals(text) THEN "IdentityMismatch"
         ELSE IF "connect" \in Signals(text) THEN "Unreachable"
         ELSE IF "port" \in Signals(text) THEN "PortInUse"
         ELSE "UnexpectedExit"
  /\ last.op = "exit" =>
       /\ "mismatch" \in last.marks =>
            /\ last.msg = "IPC socket is in use by another mpv instance"
            /\ last.spawned = 0
       /\ ("connect" \in last.marks /\ "mismatch" \notin last.marks) =>
            /\ last.msg = "can't connect to mpv IPC socket"
            /\ last.spawned = 0

\* An exit with a connect-failure marker and an address-in-use signal has
\* been classified as Unreachable, and one with both markers as
\* IdentityMismatch.
C37_Witness ==
  /\ last.op = "exit"
  /\ \/ /\ last.marks = {"port", "connect"}
        /\ last.msg = "can't connect to mpv IPC socket"
     \/ /\ last.marks = {"mismatch", "connect"}
        /\ last.msg = "IPC socket is in use by another mpv instance"
  /\ last.spawned = 0
  /\ current_port = NoPort

\* C38: a range request whose response has come in while it waits is resolved
\* with that response's data, whatever other range responses come in before
\* its interval ticks: while the range slot holds a result, the next tick of
\* such a request resolves it with the data of its own response.
C38_SlotKeepsNeededResult ==
  \A w \in Waits :
    ( /\ waiters[w].waiting
      /\ waiters[w].kind = "audio_range"
      /\ waiters[w].landed # NoData
      /\ pendingAudioRange # NoRange )
    => poll(CCur, w).out.res = waiters[w].landed

\* C39: a range request is never resolved with the data of a response that
\* came in before it was issued: for a request that waits alone on its key
\* and whose response has not come in since it was issued, the range slot
\* holds nothing its interval would take.
C39_NoResultFromBeforeTheCall ==
  \A w \in Waits :
    ( /\ waiters[w].waiting
      /\ waiters[w].kind = "audio_range"
      /\ waiters[w].landed = NoData
      /\ WaitingOn(WaitKey(waiters[w])) = {w} )
    => Seen(CCur, waiters[w]) = NoData

\* C40: when no item of the store is selected, a click on any item of the
\* store selects exactly that item, also after selected items have been
\* evicted.
C40_ClickSelectsFromNothing ==
  SelectedPlaces = {} =>
    \A i \in 1..Len(messages) :
      getSelectedMessages(toggleSelection(CCur, i)) = {i}
====
